---- MODULE Spec2Model ----
(***************************************************************************)
(* A model of the incremental ingestion core of the RAG pipeline:          *)
(*   - the connector manager of RAG/manager/connector_manager.py with its  *)
(*     three connectors (local file, Google Drive, SQL) and the queue;     *)
(*   - the source-keyed ledger and extract_all of RAG/managers, driven by  *)
(*     RAG/scheduler.py;                                                   *)
(*   - the stage tracker of RAG/src/utils/state_manager.py driven by       *)
(*     DocumentPipeline.process_file of RAG/src/pipeline.py.               *)
(* Each part has its own specification over the shared variables.          *)
(***************************************************************************)
EXTENDS Integers, Sequences, FiniteSets, TLC

VARIABLES
    \* ---- environment of the connector manager
    fsFiles,        \* local directory: relative path -> mtime in seconds (0: no such file)
    hashSeed,       \* the running interpreter's string-hash seed
    tableMaxKey,    \* largest primary key in the SQL table (0: empty table)
    \* ---- ConnectorManager and its connectors
    connectors,     \* keys of self.connectors
    queue,          \* self.queue: list of item dicts
    queueFile,      \* processing_queue.json
    processedLocal,     \* LocalFileConnector._processed_files
    processedLocalFile, \* local_processed_files.json
    processedDrive,     \* GoogleDriveConnector._processed_files
    processedDriveFile, \* google_drive_processed_files.json
    sqlState,       \* SQLConnector._state
    sqlStateFile,   \* sql_connector_state.json
    last,           \* the most recent call on a component, with what it returned
    \* ---- environment of the source-keyed extraction
    xFiles,         \* base directory: relative path -> content and mtime (c = 0: no such file)
    clock,          \* datetime.now(), in ticks
    \* ---- StateManager of RAG/managers and the scheduler's run
    smState,        \* StateManager.state: last_run and processed_items
    smFile,         \* the state file
    pending,        \* documents extract_all returned to run_pipeline
    pc,             \* position of run_pipeline
    lastRunStatus,  \* DataPipelineScheduler.last_run_status
    handed,         \* how often each (source, item_id) was passed to processing_pipeline.process
    \* ---- stage tracker of RAG/src/utils and the document pipeline driving it
    trState,        \* StateManager.state: file_id -> stage -> record
    trFile,         \* pipeline_state.json
    cur,            \* the file process_file is working on
    drvPc,          \* position of process_file
    \* ---- the SQL table's rows and a caller of SQLConnector.get_new_rows
    rowVersion,     \* key -> how often the row's non-key columns were rewritten
    fetch,          \* the last get_new_rows call: its arguments and what it returned
    \* ---- a FileMetadata or TableMetadata value on its way to a dict and back
    rt,             \* the value m, to_dict(m) and from_dict(to_dict(m)), as far as computed
    \* ---- DataPipelineScheduler and its threads
    sched,          \* the scheduler object: running and scheduler_thread
    threads,        \* thread id -> where the thread is
    jobDue,         \* whether the schedule library holds the daily job as due
    \* ---- one persisted store, its file and the component that owns it
    store,          \* which store, its content in memory and on disk, the owner's state
    \* ---- run bookkeeping of the stage tracker
    meta,           \* StateManager.state["pipeline_metadata"], as saved
    \* ---- one run of run.py
    cli,            \* the arguments of the process and how far main() is
    \* ---- what a local file's stat() and bytes hold beyond the whole seconds
    fsMore,         \* relative path -> fraction of st_mtime (tenths) and content
    \* ---- the daily job of setup_schedule
    ticks,          \* the day the job last came due and the day it last started a cycle
    \* ---- a caller draining a table through get_new_rows
    drain           \* the table's incremental column, the batch size, and the rows delivered

orchVars == <<fsFiles, hashSeed, tableMaxKey, connectors, queue, queueFile,
              processedLocal, processedLocalFile, processedDrive, processedDriveFile,
              sqlState, sqlStateFile, last>>

extractVars == <<xFiles, clock, smState, smFile, pending, pc, lastRunStatus, handed>>

trackerVars == <<trState, trFile, cur, drvPc>>

fetchVars == <<rowVersion, fetch>>

\* The variables of the smaller parts, which the manager, the extraction and
\* the tracker never touch
schedVars == <<sched, threads, jobDue>>

auxVars == <<fetchVars, rt, schedVars, store, meta, cli, fsMore, ticks, drain>>

vars == <<orchVars, extractVars, trackerVars, auxVars>>

-----------------------------------------------------------------------------
(* Bounds of the model *)

MaxQueue == 3       \* scans stop adding once the queue is this long
MaxKey == 2         \* primary keys of the table are 1..MaxKey

Mtimes == {1, 2}    \* modification times, in seconds
Paths == {"a.txt", "b.txt"}
PathOrder == <<"a.txt", "b.txt">>   \* the order iterdir() yields the files
Seeds == {0, 1}
DriveFileIds == {1}
Tables == {1}

-----------------------------------------------------------------------------
(* Strings the code transforms, spelled out so that lower() and replace()  *)
(* act on characters.                                                      *)

Spelling ==
    [LocalFileConnector |->
        <<"L","o","c","a","l","F","i","l","e","C","o","n","n","e","c","t","o","r">>,
     GoogleDriveConnector |->
        <<"G","o","o","g","l","e","D","r","i","v","e","C","o","n","n","e","c","t","o","r">>,
     SQLConnector |-> <<"S","Q","L","C","o","n","n","e","c","t","o","r">>,
     local_file |-> <<"l","o","c","a","l","_","f","i","l","e">>,
     google_drive |-> <<"g","o","o","g","l","e","_","d","r","i","v","e">>,
     sql |-> <<"s","q","l">>,
     connector |-> <<"c","o","n","n","e","c","t","o","r">>]

UpperCase == <<"A","B","C","D","E","F","G","H","I","J","K","L","M",
               "N","O","P","Q","R","S","T","U","V","W","X","Y","Z">>
LowerCase == <<"a","b","c","d","e","f","g","h","i","j","k","l","m",
               "n","o","p","q","r","s","t","u","v","w","x","y","z">>

\* str.lower()
LowerChar(c) ==
    IF \E i \in 1..Len(UpperCase) : UpperCase[i] = c
    THEN LowerCase[CHOOSE i \in 1..Len(UpperCase) : UpperCase[i] = c]
    ELSE c

Lower(s) == [i \in 1..Len(s) |-> LowerChar(s[i])]

\* str.replace(pat, ''): every non-overlapping occurrence, left to right
RECURSIVE RemoveAll(_, _)
RemoveAll(s, pat) ==
    IF Len(s) < Len(pat) THEN s
    ELSE IF SubSeq(s, 1, Len(pat)) = pat
         THEN RemoveAll(SubSeq(s, Len(pat) + 1, Len(s)), pat)
         ELSE <<Head(s)>> \o RemoveAll(Tail(s), pat)

\* ConnectorBase.__init__: self.name = self.__class__.__name__
ClassName ==
    [local_file |-> "LocalFileConnector",
     google_drive |-> "GoogleDriveConnector",
     sql |-> "SQLConnector"]

ConnectorKeys == <<"local_file", "google_drive", "sql">>   \* registration order
AllKeys == {"local_file", "google_drive", "sql"}
Sources == {ClassName[k] : k \in AllKeys}

\* connector_name = source.lower().replace('connector', '')
ConnectorNameChars(source) == RemoveAll(Lower(Spelling[source]), Spelling["connector"])

\* The connector name of each source, computed once
ConnectorName ==
    [LocalFileConnector |-> ConnectorNameChars("LocalFileConnector"),
     GoogleDriveConnector |-> ConnectorNameChars("GoogleDriveConnector"),
     SQLConnector |-> ConnectorNameChars("SQLConnector")]

NoConnector == "none"

\* self.connectors.get(connector_name)
GetConnector(source, registered) ==
    IF \E k \in registered : Spelling[k] = ConnectorName[source]
    THEN CHOOSE k \in registered : Spelling[k] = ConnectorName[source]
    ELSE NoConnector

-----------------------------------------------------------------------------
(* Item identifiers and metadata *)

HashVals == 0..3    \* the range the string hash is reduced to
PathCode == [p \in Paths |-> IF p = "a.txt" THEN 1 ELSE 3]

\* hash(rel_path): a function of the string and of the interpreter's seed
Hash(seed, p) == (PathCode[p] * (seed + 1) + seed) % Cardinality(HashVals)

NoKey == -1         \* None as a last_processed_key / last_key

\* f"local_{hash(rel_path)}_{int(last_modified)}"
GenerateFileId(p) == [k |-> "local", h |-> Hash(hashSeed, p), m |-> fsFiles[p]]
\* file['id'] of the Drive listing
DriveId(f) == [k |-> "drive", h |-> f, m |-> 0]
\* f"{schema}.{table_name}"
TableId(t) == [k |-> "sql", h |-> t, m |-> 0]

\* FileMetadata.to_dict / TableMetadata.to_dict, the fields the manager reads
Item(id, source, key) == [id |-> id, source |-> source, key |-> key]

RECURSIVE SeqOfSet(_)
SeqOfSet(S) ==
    IF S = {} THEN <<>>
    ELSE LET x == CHOOSE y \in S : \A z \in S : y <= z
         IN <<x>> \o SeqOfSet(S \ {x})

\* LocalFileConnector.scan
RECURSIVE LocalScanFrom(_)
LocalScanFrom(i) ==
    IF i > Len(PathOrder) THEN <<>>
    ELSE LET p == PathOrder[i]
             file_id == GenerateFileId(p)
         IN (IF fsFiles[p] # 0 /\ file_id \notin processedLocal
             THEN <<Item(file_id, ClassName["local_file"], NoKey)>>
             ELSE <<>>) \o LocalScanFrom(i + 1)

LocalScan == LocalScanFrom(1)

\* GoogleDriveConnector.scan
RECURSIVE DriveScanOver(_)
DriveScanOver(fs) ==
    IF fs = <<>> THEN <<>>
    ELSE (IF DriveId(Head(fs)) \in processedDrive
          THEN <<>>
          ELSE <<Item(DriveId(Head(fs)), ClassName["google_drive"], NoKey)>>)
         \o DriveScanOver(Tail(fs))

DriveScan == DriveScanOver(SeqOfSet(DriveFileIds))

\* self._state.get(table_id, {}).get('last_processed_key')
LastProcessedKey(id) == IF id \in DOMAIN sqlState THEN sqlState[id] ELSE NoKey

\* SQLConnector.scan
RECURSIVE SqlScanOver(_)
SqlScanOver(ts) ==
    IF ts = <<>> THEN <<>>
    ELSE <<Item(TableId(Head(ts)), ClassName["sql"], LastProcessedKey(TableId(Head(ts))))>>
         \o SqlScanOver(Tail(ts))

SqlScan == SqlScanOver(SeqOfSet(Tables))

\* connector.scan() of the connector registered under key k; a connector that
\* cannot connect returns []
ConnectorScan(k, up) ==
    IF k \notin up THEN <<>>
    ELSE CASE k = "local_file" -> LocalScan
           [] k = "google_drive" -> DriveScan
           [] k = "sql" -> SqlScan

\* ConnectorManager.scan_all
RECURSIVE ScanAllFrom(_, _)
ScanAllFrom(i, up) ==
    IF i > Len(ConnectorKeys) THEN <<>>
    ELSE (IF ConnectorKeys[i] \in connectors
          THEN ConnectorScan(ConnectorKeys[i], up)
          ELSE <<>>) \o ScanAllFrom(i + 1, up)

ScanAll(up) == ScanAllFrom(1, up)

\* connector.get_processed_items()
GetProcessedItems(k) ==
    CASE k = "local_file" -> processedLocal
      [] k = "google_drive" -> processedDrive
      [] k = "sql" -> DOMAIN sqlState

QueuedIds(q) == {q[i].id : i \in 1..Len(q)}

RemoveAt(q, i) == SubSeq(q, 1, i - 1) \o SubSeq(q, i + 1, Len(q))

Called(op, outcome) == [op |-> op, outcome |-> outcome]

NoId == [k |-> "none", h |-> 0, m |-> 0]
-----------------------------------------------------------------------------
(* The connectors' mark_as_processed *)

\* A mark that takes the id out of the ledger when the ledger already holds it:
\* the fault the idempotence property of marking has to tell from the code
LocalMarkedToggling(item_id) ==
    IF item_id \in processedLocal THEN processedLocal \ {item_id}
    ELSE processedLocal \cup {item_id}

\* LocalFileConnector.mark_as_processed: self._processed_files.add(item_id)
LocalMarked(item_id) == processedLocal \cup {item_id}

\* GoogleDriveConnector.mark_as_processed: self._processed_files.add(item_id)
DriveMarked(item_id) == processedDrive \cup {item_id}

\* SQLConnector.mark_as_processed: the entry is created if absent, and
\* last_processed_key is set only when last_key is given
SqlMarked(item_id, last_key) ==
    [x \in DOMAIN sqlState \cup {item_id} |->
        IF x = item_id
        THEN (IF last_key # NoKey THEN last_key ELSE LastProcessedKey(item_id))
        ELSE sqlState[x]]

\* The ledger of connector k changes in memory and its file is left alone
MarkInMemoryOnly(k, item_id, last_key) ==
    /\ processedLocal' = IF k = "local_file" THEN LocalMarked(item_id) ELSE processedLocal
    /\ processedDrive' = IF k = "google_drive" THEN DriveMarked(item_id) ELSE processedDrive
    /\ sqlState' = IF k = "sql" THEN SqlMarked(item_id, last_key) ELSE sqlState
    /\ UNCHANGED <<processedLocalFile, processedDriveFile, sqlStateFile>>

\* connector.mark_as_processed(...) on the connector under key k, with the
\* save each one ends with; k = NoConnector: no connector is called
MarkIn(k, item_id, last_key) ==
    /\ processedLocal' = IF k = "local_file" THEN LocalMarked(item_id) ELSE processedLocal
    /\ processedLocalFile' = IF k = "local_file" THEN LocalMarked(item_id)
                             ELSE processedLocalFile
    /\ processedDrive' = IF k = "google_drive" THEN DriveMarked(item_id) ELSE processedDrive
    /\ processedDriveFile' = IF k = "google_drive" THEN DriveMarked(item_id)
                             ELSE processedDriveFile
    /\ sqlState' = IF k = "sql" THEN SqlMarked(item_id, last_key) ELSE sqlState
    /\ sqlStateFile' = IF k = "sql" THEN SqlMarked(item_id, last_key) ELSE sqlStateFile

-----------------------------------------------------------------------------
(* ConnectorManager *)

envVars == <<fsFiles, hashSeed, tableMaxKey>>
ledgerVars == <<processedLocal, processedLocalFile, processedDrive, processedDriveFile,
                sqlState, sqlStateFile>>

\* new_items = [item for item in items if item.id not in queued_ids]
NewItems(items, q) ==
    LET NotQueued(it) == it.id \notin QueuedIds(q)
    IN SelectSeq(items, NotQueued)

\* ConnectorManager.scan_and_queue; up: the connectors that can connect now
ScanAndQueue(up) ==
    LET items == ScanAll(up)
        new_items == NewItems(items, queue)
    IN /\ Len(queue) + Len(new_items) <= MaxQueue
       /\ queue' = queue \o new_items
       /\ queueFile' = queue'
       /\ last' = Called("scan_and_queue", "ok")
       /\ UNCHANGED <<envVars, connectors, ledgerVars>>

FirstIndex(q, item_id) == CHOOSE i \in 1..Len(q) :
                              /\ q[i].id = item_id
                              /\ \A j \in 1..(i - 1) : q[j].id # item_id

\* ConnectorManager.mark_as_processed
MarkAsProcessed(item_id, last_key) ==
    IF item_id \in QueuedIds(queue)
    THEN LET i == FirstIndex(queue, item_id)
             processed_item == queue[i]
             connector == GetConnector(processed_item.source, connectors)
         IN /\ queue' = RemoveAt(queue, i)
            /\ queueFile' = queue'
            /\ MarkIn(connector, item_id,
                      IF connector = "sql" /\ last_key # NoKey THEN last_key ELSE NoKey)
            /\ last' = Called("mark_as_processed",
                              IF connector = NoConnector THEN "source_unavailable"
                              ELSE "marked")
            /\ UNCHANGED <<envVars, connectors>>
    ELSE /\ last' = Called("mark_as_processed", "not_found")
         /\ UNCHANGED <<envVars, connectors, queue, queueFile, ledgerVars>>

\* ConnectorManager.download_item; fetched: whether the Drive download succeeds
DownloadOutcome(item_id, fetched) ==
    IF item_id \notin QueuedIds(queue) THEN "not_found"
    ELSE LET item == queue[FirstIndex(queue, item_id)]
             connector == GetConnector(item.source, connectors)
         IN IF connector = NoConnector THEN "source_unavailable"
            ELSE IF connector = "google_drive"
                 THEN (IF fetched THEN "downloaded" ELSE "download_failed")
                 ELSE "unsupported"

DownloadItem(item_id, fetched) ==
    /\ last' = Called("download_item", DownloadOutcome(item_id, fetched))
    /\ UNCHANGED <<envVars, connectors, queue, queueFile, ledgerVars>>

\* run.py --clear-queue: manager.queue = []; manager._save_queue()
ClearQueue ==
    /\ queue # <<>>
    /\ queue' = <<>>
    /\ queueFile' = <<>>
    /\ last' = Called("clear_queue", "ok")
    /\ UNCHANGED <<envVars, connectors, ledgerVars>>

\* The sets of connectors _register_connectors can end with
Registrations == {r \in SUBSET AllKeys : "local_file" \in r}

EmptyState == [x \in {} |-> NoKey]

\* A new process: ConnectorManager.__init__ registers the connectors the
\* configuration allows; each loads its ledger, and the manager its queue
Restart(seed, regs) ==
    /\ hashSeed' = seed
    /\ connectors' = regs
    /\ queue' = queueFile
    /\ processedLocal' = IF "local_file" \in regs THEN processedLocalFile ELSE {}
    /\ processedDrive' = IF "google_drive" \in regs THEN processedDriveFile ELSE {}
    /\ sqlState' = IF "sql" \in regs THEN sqlStateFile ELSE EmptyState
    /\ last' = Called("restart", "ok")
    /\ UNCHANGED <<fsFiles, tableMaxKey, queueFile, processedLocalFile,
                   processedDriveFile, sqlStateFile>>

\* Ids a caller holds for connector k: what its scan returns, and what it
\* already marked
KnownIds(k) ==
    LET s == ConnectorScan(k, {k})
    IN {s[i].id : i \in 1..Len(s)} \cup GetProcessedItems(k)

\* connector.mark_as_processed called on a registered connector
ConnectorMark(k, item_id, last_key) ==
    /\ k \in connectors
    /\ item_id \in KnownIds(k)
    /\ k # "sql" => last_key = NoKey
    /\ last_key <= tableMaxKey
    /\ MarkIn(k, item_id, last_key)
    /\ last' = Called("connector_mark",
                      IF item_id \in GetProcessedItems(k) THEN "marked_again" ELSE "marked")
    /\ UNCHANGED <<envVars, connectors, queue, queueFile>>

\* The environment: a file is written (created or edited in place)
TouchFile(p, mtime) ==
    /\ mtime > fsFiles[p]
    /\ fsFiles' = [fsFiles EXCEPT ![p] = mtime]
    /\ UNCHANGED <<hashSeed, tableMaxKey, connectors, queue, queueFile, ledgerVars, last>>

\* The environment: a row is inserted in the table
InsertRow ==
    /\ tableMaxKey < MaxKey
    /\ tableMaxKey' = tableMaxKey + 1
    /\ UNCHANGED <<fsFiles, hashSeed, connectors, queue, queueFile, ledgerVars, last>>

IdUniverse ==
    {[k |-> "local", h |-> h, m |-> m] : h \in HashVals, m \in Mtimes}
    \cup {DriveId(f) : f \in DriveFileIds} \cup {TableId(t) : t \in Tables}

Keys == {NoKey} \cup 1..MaxKey

\* ---- values of the source-keyed extraction
MaxClock == 3       \* the clock runs from 1 to MaxClock
Contents == {1, 2}  \* file contents
NoTime == 0         \* None as a last_run
NoFile == [c |-> 0, m |-> 0]
LocalFilesystem == "local_filesystem"

\* StateManager._load_state when the state file does not exist
DefaultState == [last_run |-> NoTime, items |-> <<>>]

\* ---- values of the stage tracker
FileIds == {"f1", "f2"}
StageNames == {"read", "chunk", "embed", "processed", "chunked", "embedded", "loaded"}
NoStages == [s \in StageNames |-> "absent"]

\* The scheduler before its first run, with an empty base directory
ExtractIdle ==
    /\ xFiles = [p \in Paths |-> NoFile]
    /\ clock = 1
    /\ smState = DefaultState
    /\ smFile = DefaultState
    /\ pending = <<>>
    /\ pc = "idle"
    /\ lastRunStatus = "none"
    /\ handed = <<>>

\* The document pipeline before its first file
TrackerIdle ==
    /\ trState = [f \in FileIds |-> NoStages]
    /\ trFile = [f \in FileIds |-> NoStages]
    /\ cur = "f1"
    /\ drvPc = "idle"

\* No get_new_rows call was made yet; the table's rows are as inserted
NoFetch == [cursor |-> NoKey, batch_size |-> 0, rows |-> <<>>, latest_key |-> NoKey]

FetchIdle ==
    /\ rowVersion = [r \in 1..MaxKey |-> 0]
    /\ fetch = NoFetch

\* The smaller parts before anything was called
\* No metadata value is being converted
NoRoundTrip == [phase |-> "none"]

MaxThreads == 2     \* threads the scheduler may start in all
ThreadIds == 1..MaxThreads
NoThread == 0       \* None as scheduler_thread

\* DataPipelineScheduler.__init__, with the job of setup_schedule not yet due
SchedIdle ==
    /\ sched = [running |-> FALSE, scheduler_thread |-> NoThread]
    /\ threads = [t \in ThreadIds |-> "unborn"]
    /\ jobDue = FALSE

\* The persisted stores, and whether the loader of each catches the exception
\* of a file it cannot parse
LoaderCatches ==
    [processed_items |-> FALSE, local_ledger |-> TRUE, drive_ledger |-> TRUE,
     sql_state |-> TRUE, queue |-> TRUE, pipeline_state |-> TRUE]

StoreKinds == DOMAIN LoaderCatches

EmptyContent == 0   \* the content of a store nothing was written to

\* A file: absent, whole with the content written, torn by a write that did
\* not finish, or garbage
File(state, content) == [state |-> state, content |-> content]

NoStoreFile == File("absent", EmptyContent)

\* A component constructed with no backing file
NewStore(kind) ==
    [kind |-> kind, mem |-> EmptyContent, file |-> NoStoreFile, writing |-> FALSE,
     status |-> "up"]

\* The stores part is not in use: the queue, constructed, with no file
StoreIdle == store = NewStore("queue")

\* ---- values of the run bookkeeping
RunIds == {"run_1", "run_2"}
NoRun == "none"     \* None as a run id

\* What get_pipeline_summary returns over an empty state
NoSummary ==
    [total_files |-> 0, completed_files |-> 0, failed_files |-> 0,
     in_progress_files |-> 0, not_started_files |-> 0, progress_sum |-> 0]

\* The state holds no "pipeline_metadata" key
NoMeta ==
    [present |-> FALSE,
     runs |-> [r \in RunIds |-> [status |-> "absent", summary |-> NoSummary]],
     current_run |-> NoRun]

\* ---- values of the command line
\* parse_args with no option given
NoArgs ==
    [list_queue |-> FALSE, scan |-> FALSE, verbose |-> FALSE, mark_processed |-> NoId,
     clear_queue |-> FALSE, download |-> FALSE, download_item |-> NoId]

\* No run.py process was started yet
NoCli == [phase |-> "none", args |-> NoArgs]

\* ---- values of the smaller parts added to the environment
\* Every file was last written on a whole second, with the same bytes
NoMore == [p \in Paths |-> [frac |-> 0, c |-> 1]]

\* The daily job never came due
NoTicks == [tick |-> NoTime, cycle |-> NoTime]

\* No table is being drained
NoDrain == [col |-> <<>>, batch_size |-> 1, delivered |-> <<>>, state |-> "idle"]

AuxIdle ==
    /\ FetchIdle
    /\ rt = NoRoundTrip
    /\ SchedIdle
    /\ StoreIdle
    /\ meta = NoMeta
    /\ cli = NoCli
    /\ fsMore = NoMore
    /\ ticks = NoTicks
    /\ drain = NoDrain

ManagerInit ==
    /\ fsFiles = [p \in Paths |-> 0]
    /\ hashSeed \in Seeds
    /\ tableMaxKey = 0
    /\ connectors \in Registrations
    /\ queue = <<>>
    /\ queueFile = <<>>
    /\ processedLocal = {}
    /\ processedLocalFile = {}
    /\ processedDrive = {}
    /\ processedDriveFile = {}
    /\ sqlState = EmptyState
    /\ sqlStateFile = EmptyState
    /\ last = Called("init", "ok")

Init ==
    /\ ManagerInit
    /\ ExtractIdle
    /\ TrackerIdle
    /\ AuxIdle

\* An id that is in no queue and no ledger: the caller's stale or mistyped id
AbsentId == [k |-> "drive", h |-> 0, m |-> 0]

\* The manager's callers: each operation of the manager, and a new process
Next ==
    \/ \E up \in SUBSET connectors :
           ScanAndQueue(up) /\ UNCHANGED <<extractVars, trackerVars, auxVars>>
    \/ \E item_id \in QueuedIds(queue) \cup {AbsentId}, last_key \in Keys :
           MarkAsProcessed(item_id, last_key) /\ UNCHANGED <<extractVars, trackerVars, auxVars>>
    \/ \E item_id \in QueuedIds(queue) \cup {AbsentId}, fetched \in BOOLEAN :
           DownloadItem(item_id, fetched) /\ UNCHANGED <<extractVars, trackerVars, auxVars>>
    \/ ClearQueue /\ UNCHANGED <<extractVars, trackerVars, auxVars>>
    \/ \E seed \in Seeds, regs \in Registrations :
           Restart(seed, regs) /\ UNCHANGED <<extractVars, trackerVars, auxVars>>
    \/ \E p \in Paths : TouchFile(p, 1) /\ UNCHANGED <<extractVars, trackerVars, auxVars>>
    \/ InsertRow /\ UNCHANGED <<extractVars, trackerVars, auxVars>>

Spec == Init /\ [][Next]_vars

-----------------------------------------------------------------------------
(* The connectors on their own: scan and mark_as_processed called directly *)

\* connector.scan() called on connector k
Scan(k, up) ==
    /\ last' = Called("scan", IF ConnectorScan(k, up) = <<>> THEN "empty" ELSE "items")
    /\ UNCHANGED <<envVars, connectors, queue, queueFile, ledgerVars>>

\* A new process constructs the connectors again: each loads its ledger
Reload(seed) ==
    /\ hashSeed' = seed
    /\ processedLocal' = processedLocalFile
    /\ processedDrive' = processedDriveFile
    /\ sqlState' = sqlStateFile
    /\ last' = Called("restart", "ok")
    /\ UNCHANGED <<fsFiles, tableMaxKey, connectors, queue, queueFile,
                   processedLocalFile, processedDriveFile, sqlStateFile>>

InitConnectors ==
    /\ Init
    /\ connectors = AllKeys

NextConnectors ==
    \/ \E k \in AllKeys : \E up \in SUBSET {k} :
           Scan(k, up) /\ UNCHANGED <<extractVars, trackerVars, auxVars>>
    \/ \E k \in AllKeys, item_id \in IdUniverse, last_key \in Keys :
           ConnectorMark(k, item_id, last_key) /\ UNCHANGED <<extractVars, trackerVars, auxVars>>
    \/ \E seed \in Seeds : Reload(seed) /\ UNCHANGED <<extractVars, trackerVars, auxVars>>
    \/ \E p \in Paths, mtime \in Mtimes :
           TouchFile(p, mtime) /\ UNCHANGED <<extractVars, trackerVars, auxVars>>
    \/ InsertRow /\ UNCHANGED <<extractVars, trackerVars, auxVars>>

SpecConnectors == InitConnectors /\ [][NextConnectors]_vars

-----------------------------------------------------------------------------
(* Properties of the connector manager and the connectors *)

\* C1: after any sequence of manager operations the queue holds at most one
\* entry per item id.
C1_QueueOneEntryPerId ==
    \A i, j \in 1..Len(queue) : queue[i].id = queue[j].id => i = j

\* The registered connector that produced a queue entry: the one whose name
\* the entry carries as its source
OriginOf(item) == CHOOSE k \in AllKeys : ClassName[k] = item.source

\* C4: a mark_as_processed or download_item call for a queued item whose
\* source resolves to no registered connector reports it and leaves the queue,
\* in memory and on disk, as it was.
C4_UnavailableSourceKeepsQueue ==
    [][(/\ last'.op \in {"mark_as_processed", "download_item"}
        /\ last'.outcome = "source_unavailable")
       => (queue' = queue /\ queueFile' = queueFile)]_vars

\* C5: marking a queued item that a registered connector C returned from its
\* scan resolves the item's source to C, removes the item from the queue and
\* adds its id to C's ledger.
C5_MarkReachesOriginLedger ==
    [][\A item_id \in IdUniverse, last_key \in Keys :
          (/\ MarkAsProcessed(item_id, last_key)
           /\ item_id \in QueuedIds(queue)
           /\ OriginOf(queue[FirstIndex(queue, item_id)]) \in connectors)
          => LET item == queue[FirstIndex(queue, item_id)]
                 C == OriginOf(item)
             IN /\ GetConnector(item.source, connectors) = C
                /\ queue' = RemoveAt(queue, FirstIndex(queue, item_id))
                /\ item_id \in GetProcessedItems(C)']_vars

\* Whether the table holds rows past the recorded cursor (every row, when no
\* cursor is recorded): the change signal of a table
RowsPast(key) == \E r \in 1..tableMaxKey : key = NoKey \/ r > key

\* Whether the change signal of an item of connector k has moved past the mark
\* its ledger holds; a file's ledger entry is its id and holds no cursor
ChangeSignalAdvanced(k, id) == k = "sql" /\ RowsPast(LastProcessedKey(id))

\* C6: for every connector, scan() returns no item whose id is in the
\* connector's ledger unless the item's change signal is past the recorded mark.
C6_ScanSkipsLedgerIds ==
    \A k \in AllKeys :
        LET items == ConnectorScan(k, {k})
        IN \A i \in 1..Len(items) :
               items[i].id \in GetProcessedItems(k) => ChangeSignalAdvanced(k, items[i].id)

\* C7: marking an id on a connector puts it in the ledger, and marking an id
\* the ledger already holds leaves the set of ledger ids, in memory and on
\* disk, as the first call left it; neither call raises.
C7_MarkIdempotent ==
    [][\A k \in AllKeys, item_id \in IdUniverse, last_key \in Keys :
          ConnectorMark(k, item_id, last_key)
          => /\ item_id \in GetProcessedItems(k)'
             /\ last'.outcome \in {"marked", "marked_again"}
             /\ item_id \in GetProcessedItems(k)
                => /\ GetProcessedItems(k)' = GetProcessedItems(k)
                   /\ processedLocalFile' = processedLocalFile
                   /\ processedDriveFile' = processedDriveFile
                   /\ DOMAIN sqlStateFile' = DOMAIN sqlStateFile]_vars

\* C7 witness: an id was marked a second time on a connector while the local
\* ledger holds two ids and the SQL ledger a table with a cursor.
C7_Witness ==
    /\ last = Called("connector_mark", "marked_again")
    /\ Cardinality(processedLocal) >= 2
    /\ \E id \in DOMAIN sqlState : sqlState[id] # NoKey

-----------------------------------------------------------------------------
(* The source-keyed extraction: LocalFileSystemConnector, StateManager and   *)
(* ConnectorManager.extract_all of RAG/managers, run by the scheduler        *)

\* LocalFileSystemConnector._calculate_file_hash: the SHA-256 digest of the
\* file's bytes, equal for two files exactly when their contents are equal
CalculateFileHash(p) == [sha256 |-> xFiles[p].c]

\* LocalFileSystemConnector._process_file
ProcessFile(p) ==
    [source |-> LocalFilesystem, file_path |-> p, hash |-> CalculateFileHash(p)]

\* LocalFileSystemConnector.scan_directory
RECURSIVE ScanDirectoryFrom(_, _)
ScanDirectoryFrom(i, last_run_time) ==
    IF i > Len(PathOrder) THEN <<>>
    ELSE LET p == PathOrder[i]
             rest == ScanDirectoryFrom(i + 1, last_run_time)
         IN IF xFiles[p] = NoFile THEN rest
            ELSE IF last_run_time # NoTime /\ xFiles[p].m <= last_run_time THEN rest
            ELSE <<ProcessFile(p)>> \o rest

ScanDirectory(last_run_time) == ScanDirectoryFrom(1, last_run_time)

\* The key of an item in processed_items
ItemKey(source, item_id) == <<source, item_id>>

\* StateManager.is_item_processed
IsItemProcessed(st, source, item_id) == ItemKey(source, item_id) \in DOMAIN st.items

\* StateManager.mark_item_processed
MarkItemProcessed(st, source, item_id, now) ==
    [st EXCEPT !.items =
        [k \in DOMAIN st.items \cup {ItemKey(source, item_id)} |->
            IF k = ItemKey(source, item_id) THEN now ELSE st.items[k]]]

\* StateManager.update_last_run_time
UpdateLastRunTime(st, now) == [st EXCEPT !.last_run = now]

\* ConnectorManager._filter_processed_items for the source local_filesystem
RECURSIVE FilterProcessedItems(_, _, _)
FilterProcessedItems(st, source, documents) ==
    IF documents = <<>> THEN <<>>
    ELSE LET doc == Head(documents)
             item_id == doc.hash
             rest == FilterProcessedItems(st, source, Tail(documents))
         IN IF ~IsItemProcessed(st, source, item_id)
            THEN <<[source |-> doc.source, file_path |-> doc.file_path,
                    hash |-> doc.hash, item_id |-> item_id]>> \o rest
            ELSE rest

\* ConnectorManager._mark_documents_processed
RECURSIVE MarkDocumentsProcessed(_, _, _)
MarkDocumentsProcessed(st, documents, now) ==
    IF documents = <<>> THEN st
    ELSE MarkDocumentsProcessed(
             MarkItemProcessed(st, Head(documents).source, Head(documents).item_id, now),
             Tail(documents), now)

\* ConnectorManager.extract_all(incremental=True), as run_pipeline calls it,
\* with the local_filesystem connector registered
ExtractAll ==
    LET last_run_time == smState.last_run
        all_documents ==
            FilterProcessedItems(smState, LocalFilesystem, ScanDirectory(last_run_time))
    IN /\ pc = "idle"
       /\ smState' = IF all_documents # <<>>
                     THEN UpdateLastRunTime(
                              MarkDocumentsProcessed(smState, all_documents, clock), clock)
                     ELSE smState
       /\ smFile' = IF all_documents # <<>> THEN smState' ELSE smFile
       /\ pending' = all_documents
       /\ pc' = "extracted"
       /\ last' = Called("extract_all", IF all_documents = <<>> THEN "empty" ELSE "documents")
       /\ UNCHANGED <<xFiles, clock, lastRunStatus, handed>>

\* The count of each item after the documents were passed on once more
RECURSIVE Handed(_, _)
Handed(h, documents) ==
    IF documents = <<>> THEN h
    ELSE LET k == ItemKey(Head(documents).source, Head(documents).item_id)
             n == IF k \in DOMAIN h THEN h[k] ELSE 0
         IN Handed([x \in DOMAIN h \cup {k} |-> IF x = k THEN n + 1 ELSE h[x]],
                   Tail(documents))

\* The rest of DataPipelineScheduler.run_pipeline: the documents go to
\* processing_pipeline.process, which returns (ok) or raises
Process(ok) ==
    /\ pc = "extracted"
    /\ pending = <<>> => ok
    /\ handed' = Handed(handed, pending)
    /\ lastRunStatus' = IF ok THEN "success" ELSE "failure"
    /\ pending' = <<>>
    /\ pc' = "idle"
    /\ last' = Called("run_pipeline", lastRunStatus')
    /\ UNCHANGED <<xFiles, clock, smState, smFile>>

\* The process is killed and started again: a new StateManager loads the file
RestartScheduler ==
    /\ smState' = smFile
    /\ pending' = <<>>
    /\ pc' = "idle"
    /\ lastRunStatus' = "none"
    /\ last' = Called("restart", "ok")
    /\ UNCHANGED <<xFiles, clock, smFile, handed>>

\* A file of the base directory is written
WriteFile(p, c) ==
    /\ xFiles[p] # [c |-> c, m |-> clock]
    /\ xFiles' = [xFiles EXCEPT ![p] = [c |-> c, m |-> clock]]
    /\ UNCHANGED <<clock, smState, smFile, pending, pc, lastRunStatus, handed, last>>

\* Time passes
Tick ==
    /\ clock < MaxClock
    /\ clock' = clock + 1
    /\ UNCHANGED <<xFiles, smState, smFile, pending, pc, lastRunStatus, handed, last>>

managerVars == <<fsFiles, hashSeed, tableMaxKey, connectors, queue, queueFile, ledgerVars>>

InitExtract ==
    /\ ManagerInit
    /\ hashSeed = 0
    /\ connectors = {"local_file"}
    /\ ExtractIdle
    /\ TrackerIdle
    /\ AuxIdle

NextExtract ==
    \/ ExtractAll /\ UNCHANGED <<managerVars, trackerVars, auxVars>>
    \/ \E ok \in BOOLEAN : Process(ok) /\ UNCHANGED <<managerVars, trackerVars, auxVars>>
    \/ RestartScheduler /\ UNCHANGED <<managerVars, trackerVars, auxVars>>
    \/ \E p \in Paths, c \in Contents : WriteFile(p, c) /\ UNCHANGED <<managerVars, trackerVars, auxVars>>
    \/ Tick /\ UNCHANGED <<managerVars, trackerVars, auxVars>>

SpecExtract == InitExtract /\ [][NextExtract]_vars

\* C2: across any runs and restarts, each (source, item_id) is passed to the
\* processing pipeline at most once.
C2_HandedAtMostOnce ==
    \A k \in DOMAIN handed : handed[k] <= 1

\* The ids each ledger holds on disk
LedgerIds ==
    [local |-> processedLocalFile, drive |-> processedDriveFile,
     sql |-> DOMAIN sqlStateFile, state |-> DOMAIN smFile.items]

\* C3: a ledger gains an id only in an explicit mark-processed call, never in
\* a scan or an extraction.
C3_LedgerOnlyOnExplicitMark ==
    [][LedgerIds' # LedgerIds
       => last'.op \in {"mark_as_processed", "connector_mark"}]_vars

-----------------------------------------------------------------------------
(* The stage tracker of RAG/src/utils/state_manager.py, driven by            *)
(* DocumentPipeline.process_file of RAG/src/pipeline.py                      *)

\* expected_stages of get_file_progress
expected_stages == <<"read", "processed", "chunked", "embedded", "loaded">>

\* StateManager.update_file_state: the record of the stage is replaced
UpdateFileState(st, file_id, stage, success) ==
    [st EXCEPT ![file_id][stage] = IF success THEN "success" ELSE "failed"]

\* Whether file_id is a key of the state
Tracked(st, file_id) == \E s \in StageNames : st[file_id][s] # "absent"

\* Counts every expected stage recorded as success from position i on
CountStagesSkipping(stages, i) ==
    [completed_stages |->
         Cardinality({j \in i..Len(expected_stages) : stages[expected_stages[j]] = "success"}),
     failed_stage |-> "none"]

\* The loop of get_file_progress over the expected stages from position i on:
\* the stages counted and the stage the loop broke at as failed
RECURSIVE CountStages(_, _)
CountStages(stages, i) ==
    IF i > Len(expected_stages) THEN [completed_stages |-> 0, failed_stage |-> "none"]
    ELSE LET stage == expected_stages[i]
         IN IF stages[stage] = "success"
            THEN LET rest == CountStages(stages, i + 1)
                 IN [completed_stages |-> 1 + rest.completed_stages,
                     failed_stage |-> rest.failed_stage]
            ELSE IF stages[stage] = "failed"
            THEN [completed_stages |-> 0, failed_stage |-> stage]
            ELSE [completed_stages |-> 0, failed_stage |-> "none"]

\* StateManager.get_file_progress
GetFileProgress(st, file_id) ==
    IF ~Tracked(st, file_id) THEN [status |-> "unknown", progress |-> 0]
    ELSE LET counted == CountStages(st[file_id], 1)
             completed_stages == counted.completed_stages
             total == Len(expected_stages)
         IN [status |-> IF counted.failed_stage # "none"
                        THEN "failed_at_" \o counted.failed_stage
                        ELSE IF completed_stages = total THEN "completed"
                        ELSE IF completed_stages = 0 THEN "not_started"
                        ELSE "in_progress",
             progress |-> (completed_stages * 100) \div total,
             completed_stages |-> completed_stages,
             total_stages |-> total]

\* One update_file_state call of the driver on the current file, saved to disk
Record(file_id, stage, success, position, outcome) ==
    /\ trState' = UpdateFileState(trState, file_id, stage, success)
    /\ trFile' = trState'
    /\ cur' = file_id
    /\ drvPc' = position
    /\ last' = Called("update_file_state", outcome)

\* process_file begins: read_document marks the read stage as started
ReadStart(file_id) ==
    /\ drvPc = "idle"
    /\ Record(file_id, "read", FALSE, "reading", "read_started")

\* read_document returns the document, or raises and process_file returns None
ReadEnd(ok) ==
    /\ drvPc = "reading"
    /\ Record(cur, "read", ok, IF ok THEN "read_done" ELSE "idle",
              IF ok THEN "read_success" ELSE "read_failed")

\* the chunking stage is marked as started
ChunkStart ==
    /\ drvPc = "read_done"
    /\ Record(cur, "chunk", FALSE, "chunking", "chunk_started")

\* chunk_document returns, or raises PipelineError; either way embedding follows
ChunkEnd(ok) ==
    /\ drvPc = "chunking"
    /\ Record(cur, "chunk", ok, IF ok THEN "chunk_done" ELSE "chunk_failed",
              IF ok THEN "chunk_success" ELSE "chunk_failed")

\* the embedding stage is marked as started
EmbedStart ==
    /\ drvPc \in {"chunk_done", "chunk_failed"}
    /\ Record(cur, "embed", FALSE, "embedding", "embed_started")

\* embed_chunks returns or raises; process_file returns
EmbedEnd(ok) ==
    /\ drvPc = "embedding"
    /\ Record(cur, "embed", ok, "idle", IF ok THEN "embed_success" ELSE "embed_failed")

\* The process is killed wherever the driver is; a new StateManager loads
\* the state file
Kill ==
    /\ trState' = trFile
    /\ drvPc' = "idle"
    /\ last' = Called("kill", drvPc)
    /\ UNCHANGED <<trFile, cur>>

InitTracker ==
    /\ ManagerInit
    /\ hashSeed = 0
    /\ connectors = {"local_file"}
    /\ ExtractIdle
    /\ TrackerIdle
    /\ AuxIdle

NextTracker ==
    \/ \E file_id \in FileIds : ReadStart(file_id) /\ UNCHANGED <<managerVars, extractVars, auxVars>>
    \/ \E ok \in BOOLEAN : ReadEnd(ok) /\ UNCHANGED <<managerVars, extractVars, auxVars>>
    \/ ChunkStart /\ UNCHANGED <<managerVars, extractVars, auxVars>>
    \/ \E ok \in BOOLEAN : ChunkEnd(ok) /\ UNCHANGED <<managerVars, extractVars, auxVars>>
    \/ EmbedStart /\ UNCHANGED <<managerVars, extractVars, auxVars>>
    \/ \E ok \in BOOLEAN : EmbedEnd(ok) /\ UNCHANGED <<managerVars, extractVars, auxVars>>
    \/ Kill /\ UNCHANGED <<managerVars, extractVars, auxVars>>

SpecTracker == InitTracker /\ [][NextTracker]_vars

\* C8: a file with read and chunk recorded as successes and embed not recorded
\* reports 2 completed stages of 4, status in_progress and progress 50.
C8_ReadChunkIsHalfway ==
    \A f \in FileIds :
        (/\ trState[f]["read"] = "success"
         /\ trState[f]["chunk"] = "success"
         /\ trState[f]["embed"] = "absent")
        => LET p == GetFileProgress(trState, f)
           IN /\ p.completed_stages = 2
              /\ p.status = "in_progress"
              /\ p.total_stages = 4
              /\ p.progress = 50

\* C9: a file with read recorded as a success and chunk as a failure reports
\* status failed_at_chunk and 1 completed stage, whatever is recorded for embed.
C9_FailedChunkShortCircuits ==
    \A f \in FileIds :
        (/\ trState[f]["read"] = "success"
         /\ trState[f]["chunk"] = "failed")
        => LET p == GetFileProgress(trState, f)
           IN /\ p.status = "failed_at_chunk"
              /\ p.completed_stages = 1

\* C10: after a kill that came once the chunk stage was recorded as a success
\* and before embedding started, the restarted tracker reports the file as
\* in_progress with 2 completed stages.
C10_RecoveredAfterChunk ==
    last = Called("kill", "chunk_done")
    => LET p == GetFileProgress(trState, cur)
       IN /\ p.status = "in_progress"
          /\ p.completed_stages = 2

-----------------------------------------------------------------------------
(* SQLConnector.get_new_rows: a caller fetches the table batch by batch and  *)
(* stores the cursor with mark_as_processed                                   *)

MaxBatch == 2       \* batch_size is 1..MaxBatch

\* The table of the model, whose primary key is the incremental column
TheTable == TableId(1)

\* select(table).where(incremental_col > last_processed_key)
\*              .order_by(incremental_col).limit(batch_size), from key k on
RECURSIVE NewRowsFrom(_, _, _)
NewRowsFrom(k, last_processed_key, batch_size) ==
    IF k > tableMaxKey \/ batch_size = 0 THEN <<>>
    ELSE IF last_processed_key # NoKey /\ ~(k > last_processed_key)
    THEN NewRowsFrom(k + 1, last_processed_key, batch_size)
    ELSE <<[key |-> k, version |-> rowVersion[k]]>>
         \o NewRowsFrom(k + 1, last_processed_key, batch_size - 1)

\* A fetch that leaves the where clause out: the fault the cursor property has
\* to tell from the code
GetNewRowsUnfiltered(last_processed_key, batch_size) ==
    LET rows == NewRowsFrom(1, NoKey, batch_size)
    IN [rows |-> rows,
        latest_key |-> IF rows # <<>> THEN rows[Len(rows)].key ELSE NoKey]

\* SQLConnector.get_new_rows: the rows and latest_key
GetNewRows(last_processed_key, batch_size) ==
    LET rows == NewRowsFrom(1, last_processed_key, batch_size)
    IN [rows |-> rows,
        latest_key |-> IF rows # <<>> THEN rows[Len(rows)].key ELSE NoKey]

\* scan() gives the table's metadata with the stored cursor, and get_new_rows
\* is called on it
FetchNewRows(batch_size) ==
    LET last_processed_key == LastProcessedKey(TheTable)
        got == GetNewRows(last_processed_key, batch_size)
    IN /\ fetch' = [cursor |-> last_processed_key, batch_size |-> batch_size,
                    rows |-> got.rows, latest_key |-> got.latest_key]
       /\ last' = Called("get_new_rows", IF got.rows = <<>> THEN "empty" ELSE "rows")
       /\ UNCHANGED <<managerVars, rowVersion>>

\* The caller stores the cursor: mark_as_processed(table_id, latest_key)
StoreCursor ==
    /\ fetch.latest_key # NoKey
    /\ ConnectorMark("sql", TheTable, fetch.latest_key)
    /\ UNCHANGED fetchVars

\* The non-key columns of a row are rewritten
UpdateRow(r) ==
    /\ r <= tableMaxKey
    /\ rowVersion[r] = 0
    /\ rowVersion' = [rowVersion EXCEPT ![r] = 1]
    /\ UNCHANGED <<managerVars, fetch, last>>

\* The variables of the other smaller parts
outsideFetch == <<rt, schedVars, store, meta, cli, fsMore, ticks, drain>>

InitSql ==
    /\ ManagerInit
    /\ hashSeed = 0
    /\ connectors = AllKeys
    /\ ExtractIdle
    /\ TrackerIdle
    /\ AuxIdle

NextSql ==
    \/ \E batch_size \in 1..MaxBatch :
           FetchNewRows(batch_size) /\ UNCHANGED <<extractVars, trackerVars, outsideFetch>>
    \/ StoreCursor /\ UNCHANGED <<extractVars, trackerVars, outsideFetch>>
    \/ \E r \in 1..MaxKey : UpdateRow(r) /\ UNCHANGED <<extractVars, trackerVars, outsideFetch>>
    \/ InsertRow /\ UNCHANGED <<extractVars, trackerVars, auxVars>>
    \/ Reload(0) /\ UNCHANGED <<extractVars, trackerVars, auxVars>>

SpecSql == InitSql /\ [][NextSql]_vars

\* The keys of the rows past a cursor (all rows when there is no cursor)
KeysPast(cursor) == {r \in 1..tableMaxKey : cursor = NoKey \/ r > cursor}

\* C11: every fetch returns, in ascending key order, the first batch_size rows
\* whose key is past the stored cursor (the first batch_size rows of the table
\* when no cursor is stored), as they are now, and its latest key is the
\* largest key of the batch; no row at or below the cursor is returned.
C11_FetchPastCursor ==
    [][\A batch_size \in 1..MaxBatch :
          FetchNewRows(batch_size)
          => LET cursor == LastProcessedKey(TheTable)
                 rows == fetch'.rows
                 keys == {rows[i].key : i \in 1..Len(rows)}
             IN /\ Len(rows) = IF Cardinality(KeysPast(cursor)) < batch_size
                               THEN Cardinality(KeysPast(cursor)) ELSE batch_size
                /\ \A i, j \in 1..Len(rows) : i < j => rows[i].key < rows[j].key
                /\ keys \subseteq KeysPast(cursor)
                /\ \A r \in KeysPast(cursor) \ keys : \A k \in keys : k < r
                /\ \A i \in 1..Len(rows) : rows[i].version = rowVersion[rows[i].key]
                /\ fetch'.latest_key = IF rows = <<>> THEN NoKey
                                       ELSE CHOOSE k \in keys : \A x \in keys : x <= k]_vars

\* C11 witness: a fetch made with a stored cursor returned rows while a row at
\* or below the cursor had been rewritten.
C11_Witness ==
    /\ last = Called("get_new_rows", "rows")
    /\ fetch.cursor # NoKey
    /\ \E r \in 1..tableMaxKey : r <= fetch.cursor /\ rowVersion[r] = 1

-----------------------------------------------------------------------------
(* FileMetadata and TableMetadata of connector_base.py: to_dict and from_dict *)

\* FileType: member name -> value
FileTypeValue ==
    ("CSV" :> "csv") @@ ("JSON" :> "json") @@ ("EXCEL" :> "xlsx") @@ ("PDF" :> "pdf")
    @@ ("TEXT" :> "txt") @@ ("OTHER" :> "other")

FileTypes == DOMAIN FileTypeValue

\* FileType(value): the member with that value
FileTypeOf(value) == CHOOSE t \in FileTypes : FileTypeValue[t] = value

\* datetime values: a second, a microsecond and whether a UTC offset is attached
DateTimes == [s : {0, 1}, us : {0, 5}, tz : {"naive", "utc"}]

\* The two digits of a second, and the six of a microsecond
SecondText == <<"00", "01">>

MicroText(us) == IF us = 5 THEN "000005" ELSE "000000"

\* int() of the digits
SecondOf(text) == CHOOSE n \in {0, 1} : SecondText[n + 1] = text

MicroOf(text) == CHOOSE n \in {0, 5} : MicroText(n) = text

\* datetime.isoformat(): the microseconds are left out when they are zero and
\* the offset is there only for an aware value. The text is a sequence of parts.
IsoFormat(dt) ==
    <<"T", SecondText[dt.s + 1]>>
    \o (IF dt.us # 0 THEN <<".", MicroText(dt.us)>> ELSE <<>>)
    \o (IF dt.tz = "utc" THEN <<"+00:00">> ELSE <<>>)

\* A parse that reads the seconds and the offset and skips the fraction: the
\* fault the round-trip property has to tell from the code
FromIsoFormatSeconds(text) ==
    [s |-> SecondOf(text[2]), us |-> 0,
     tz |-> IF text[Len(text)] = "+00:00" THEN "utc" ELSE "naive"]

\* datetime.fromisoformat(text)
FromIsoFormat(text) ==
    [s |-> SecondOf(text[2]),
     us |-> IF Len(text) >= 4 /\ text[3] = "." THEN MicroOf(text[4]) ELSE 0,
     tz |-> IF text[Len(text)] = "+00:00" THEN "utc" ELSE "naive"]

NoChecksum == "none"    \* None as a checksum

\* The FileMetadata values of the model
FileMetas ==
    [kind : {"file"}, id : {"local_1_1"}, name : {"a.txt"}, path : {"/data/a.txt"},
     size : {10}, type : FileTypes, last_modified : DateTimes,
     source : {"LocalFileConnector"}, additional_metadata : {<<>>},
     checksum : {NoChecksum, "abc"}]

\* The TableMetadata values of the model
TableMetas ==
    [kind : {"table"}, id : {"main.t"}, name : {"t"}, schema : {"main"},
     source : {"SQLConnector"}, last_processed_key : {NoKey, 1, 2},
     columns : {<<>>, <<"id", "v">>}, row_count : {NoKey, 0},
     additional_metadata : {<<>>, <<"id">>}]

\* FileMetadata.to_dict
FileToDict(m) ==
    [kind |-> "file", id |-> m.id, name |-> m.name, path |-> m.path, size |-> m.size,
     type |-> FileTypeValue[m.type], last_modified |-> IsoFormat(m.last_modified),
     source |-> m.source, additional_metadata |-> m.additional_metadata,
     checksum |-> m.checksum]

\* FileMetadata.from_dict
FileFromDict(d) ==
    [kind |-> "file", id |-> d.id, name |-> d.name, path |-> d.path, size |-> d.size,
     type |-> FileTypeOf(d.type), last_modified |-> FromIsoFormat(d.last_modified),
     source |-> d.source, additional_metadata |-> d.additional_metadata,
     checksum |-> d.checksum]

\* TableMetadata.to_dict
TableToDict(m) ==
    [kind |-> "table", id |-> m.id, name |-> m.name, schema |-> m.schema,
     source |-> m.source, last_processed_key |-> m.last_processed_key,
     columns |-> m.columns, row_count |-> m.row_count,
     additional_metadata |-> m.additional_metadata]

\* TableMetadata.from_dict
TableFromDict(d) ==
    [kind |-> "table", id |-> d.id, name |-> d.name, schema |-> d.schema,
     source |-> d.source, last_processed_key |-> d.last_processed_key,
     columns |-> d.columns, row_count |-> d.row_count,
     additional_metadata |-> d.additional_metadata]

ToDict(m) == IF m.kind = "file" THEN FileToDict(m) ELSE TableToDict(m)

FromDict(d) == IF d.kind = "file" THEN FileFromDict(d) ELSE TableFromDict(d)

\* A connector makes a metadata value
MakeMetadata(m) ==
    /\ rt.phase \in {"none", "back"}
    /\ rt' = [phase |-> "made", m |-> m]

\* item.to_dict(), as scan_and_queue calls it
CallToDict ==
    /\ rt.phase = "made"
    /\ rt' = [phase |-> "dict", m |-> rt.m, d |-> ToDict(rt.m)]

\* from_dict on the dict
CallFromDict ==
    /\ rt.phase = "dict"
    /\ rt' = [phase |-> "back", m |-> rt.m, d |-> rt.d, back |-> FromDict(rt.d)]

outsideRoundTrip == <<orchVars, extractVars, trackerVars, fetchVars, schedVars, store,
                      meta, cli, fsMore, ticks, drain>>

InitRoundTrip ==
    /\ ManagerInit
    /\ hashSeed = 0
    /\ connectors = AllKeys
    /\ ExtractIdle
    /\ TrackerIdle
    /\ FetchIdle
    /\ SchedIdle
    /\ StoreIdle
    /\ meta = NoMeta
    /\ cli = NoCli
    /\ fsMore = NoMore
    /\ ticks = NoTicks
    /\ drain = NoDrain
    /\ \E m \in FileMetas \cup TableMetas : rt = [phase |-> "made", m |-> m]

NextRoundTrip ==
    \/ \E m \in FileMetas \cup TableMetas : MakeMetadata(m) /\ UNCHANGED outsideRoundTrip
    \/ CallToDict /\ UNCHANGED outsideRoundTrip
    \/ CallFromDict /\ UNCHANGED outsideRoundTrip

SpecRoundTrip == InitRoundTrip /\ [][NextRoundTrip]_vars

\* C12: from_dict(to_dict(m)) equals m in every field, and to_dict of the
\* result equals the dict it was made from.
C12_RoundTrip ==
    rt.phase = "back" => (rt.back = rt.m /\ ToDict(rt.back) = rt.d)

\* C12 witness: a file value whose type's value differs from its name and
\* whose time has microseconds and an offset went to a dict and back.
C12_Witness ==
    /\ rt.phase = "back"
    /\ rt.m.kind = "file"
    /\ rt.m.type = "EXCEL"
    /\ rt.m.last_modified.us # 0
    /\ rt.m.last_modified.tz = "utc"

-----------------------------------------------------------------------------
(* DataPipelineScheduler: start, stop and the scheduler threads              *)

\* DataPipelineScheduler.start
Start ==
    IF sched.running
    THEN /\ last' = Called("start", "already_running")
         /\ UNCHANGED <<schedVars, lastRunStatus>>
    ELSE /\ \E t \in ThreadIds :
              /\ threads[t] = "unborn"
              /\ \A u \in ThreadIds : u < t => threads[u] # "unborn"
              /\ threads' = [threads EXCEPT ![t] = "loop"]
              /\ sched' = [running |-> TRUE, scheduler_thread |-> t]
         /\ last' = Called("start", "started")
         /\ UNCHANGED <<jobDue, lastRunStatus>>

\* DataPipelineScheduler.stop: running is cleared and the thread is joined for
\* at most 60 seconds. A thread asleep in its loop wakes within that time and
\* ends; a thread inside run_pipeline sleeps 60 seconds after the cycle before
\* it tests running, so the join times out and the thread is still alive
Stop ==
    IF ~sched.running
    THEN /\ last' = Called("stop", "not_running")
         /\ UNCHANGED <<schedVars, lastRunStatus>>
    ELSE LET t == sched.scheduler_thread
         IN /\ sched' = [sched EXCEPT !.running = FALSE]
            /\ threads' = IF threads[t] = "loop" THEN [threads EXCEPT ![t] = "exited"]
                          ELSE threads
            /\ last' = Called("stop", IF threads[t] = "cycle" THEN "thread_alive"
                                      ELSE "stopped")
            /\ UNCHANGED <<jobDue, lastRunStatus>>

\* run_scheduler: the thread tests self.running; when it is set it calls
\* schedule.run_pending(), which calls run_pipeline if the job is due
LoopStep(t) ==
    /\ threads[t] = "loop"
    /\ IF ~sched.running THEN threads' = [threads EXCEPT ![t] = "exited"]
       ELSE /\ jobDue
            /\ threads' = [threads EXCEPT ![t] = "cycle"]
    /\ UNCHANGED <<sched, jobDue, lastRunStatus, last>>

\* run_pipeline returns in thread t; the library then sets the job's next run,
\* and the thread sleeps and goes round its loop
CycleEnd(t, ok) ==
    /\ threads[t] = "cycle"
    /\ threads' = [threads EXCEPT ![t] = "loop"]
    /\ jobDue' = FALSE
    /\ lastRunStatus' = IF ok THEN "success" ELSE "failure"
    /\ last' = Called("run_pipeline", lastRunStatus')
    /\ UNCHANGED sched

\* The time of day of the job comes
JobComesDue ==
    /\ ~jobDue
    /\ jobDue' = TRUE
    /\ UNCHANGED <<sched, threads, lastRunStatus, last>>

outsideSched == <<managerVars, xFiles, clock, smState, smFile, pending, pc, handed,
                  trackerVars, fetchVars, rt, store, meta, cli, fsMore, ticks, drain>>

InitSched ==
    /\ ManagerInit
    /\ hashSeed = 0
    /\ connectors = {"local_file"}
    /\ ExtractIdle
    /\ TrackerIdle
    /\ AuxIdle

NextSched ==
    \/ Start /\ UNCHANGED outsideSched
    \/ Stop /\ UNCHANGED outsideSched
    \/ \E t \in ThreadIds : LoopStep(t) /\ UNCHANGED outsideSched
    \/ \E t \in ThreadIds, ok \in BOOLEAN : CycleEnd(t, ok) /\ UNCHANGED outsideSched
    \/ JobComesDue /\ UNCHANGED outsideSched

SpecSched == InitSched /\ [][NextSched]_vars

\* C13: at most one thread is inside run_pipeline at any time.
C13_OneCycleAtATime ==
    Cardinality({t \in ThreadIds : threads[t] = "cycle"}) <= 1

-----------------------------------------------------------------------------
(* A persisted store: its JSON file is written by every change and read by   *)
(* the constructor of the component that owns it                             *)

MaxVersion == 3     \* a store's content is changed at most MaxVersion times

\* A mutating call begins: the content changes in memory and the save opens
\* the file with mode "w", which empties it
ChangeAndOpen ==
    /\ store.status = "up"
    /\ ~store.writing
    /\ store.mem < MaxVersion
    /\ store' = [store EXCEPT !.mem = store.mem + 1, !.file = File("torn", EmptyContent),
                          !.writing = TRUE]
    /\ last' = Called("save", "opened")

\* json.dump has written everything and the file is closed
DumpAndClose ==
    /\ store.status = "up"
    /\ store.writing
    /\ store' = [store EXCEPT !.file = File("whole", store.mem), !.writing = FALSE]
    /\ last' = Called("save", "closed")

\* What a constructor's load leaves in memory: the file's content, the empty
\* state when there is no file or when the loader caught the parse error
Loaded(kind, file) ==
    IF file.state = "whole" THEN file.content ELSE EmptyContent

\* Whether the load raises: the file does not parse and nothing catches it
LoadRaises(kind, file) == file.state \in {"torn", "garbage"} /\ ~LoaderCatches[kind]

\* The process is killed, wherever it is, and started again: the constructor
\* of the component loads the file
KillAndConstruct ==
    /\ store' = [kind |-> store.kind,
                 mem |-> Loaded(store.kind, store.file),
                 file |-> store.file,
                 writing |-> FALSE,
                 status |-> IF LoadRaises(store.kind, store.file) THEN "raised" ELSE "up"]
    /\ last' = Called("construct",
                      IF store.writing THEN "after_kill_in_write" ELSE "after_kill")

\* Something else overwrites the file with bytes that are no JSON
DamageFile ==
    /\ ~store.writing
    /\ store.file.state \notin {"absent", "garbage"}
    /\ store' = [store EXCEPT !.file = File("garbage", EmptyContent)]
    /\ UNCHANGED last

outsideStore == <<managerVars, extractVars, trackerVars, fetchVars, rt, schedVars,
                  meta, cli, fsMore, ticks, drain>>

InitStores ==
    /\ ManagerInit
    /\ hashSeed = 0
    /\ connectors = {"local_file"}
    /\ ExtractIdle
    /\ TrackerIdle
    /\ FetchIdle
    /\ rt = NoRoundTrip
    /\ SchedIdle
    /\ meta = NoMeta
    /\ cli = NoCli
    /\ fsMore = NoMore
    /\ ticks = NoTicks
    /\ drain = NoDrain
    /\ \E kind \in StoreKinds : store = NewStore(kind)

NextStores ==
    \/ ChangeAndOpen /\ UNCHANGED outsideStore
    \/ DumpAndClose /\ UNCHANGED outsideStore
    \/ KillAndConstruct /\ UNCHANGED outsideStore
    \/ DamageFile /\ UNCHANGED outsideStore

SpecStores == InitStores /\ [][NextStores]_vars

\* C14: a component constructed over a backing file that does not parse does
\* not raise and starts with its store empty.
C14_CorruptFileRecovered ==
    (last.op = "construct" /\ store.file.state \in {"torn", "garbage"})
    => (store.status = "up" /\ store.mem = EmptyContent)

\* C15: the file a component reads after a kill during a write holds the
\* complete content of before the write or of after it.
C15_WriteIsAtomic ==
    last = Called("construct", "after_kill_in_write") => store.file.state # "torn"

-----------------------------------------------------------------------------
(* ConnectorManager.extract_all of RAG/managers over several connectors,     *)
(* some of which raise                                                       *)

SqlDatabase == "sql_database"

\* What SQLDatabaseConnector.list_tables yields
LegacyTables == <<"t1", "t2">>

\* SQLDatabaseConnector.extract_table_data for a table that holds one row and
\* has no timestamp column
ExtractTableData(table) == <<[source |-> SqlDatabase, table |-> table, id |-> 1]>>

\* ConnectorManager._filter_processed_items for the source sql_database
RECURSIVE FilterTableDocuments(_, _)
FilterTableDocuments(st, documents) ==
    IF documents = <<>> THEN <<>>
    ELSE LET doc == Head(documents)
             item_id == [table |-> doc.table, id |-> doc.id]
             rest == FilterTableDocuments(st, Tail(documents))
         IN IF ~IsItemProcessed(st, SqlDatabase, item_id)
            THEN <<[source |-> doc.source, table |-> doc.table, id |-> doc.id,
                    item_id |-> item_id]>> \o rest
            ELSE rest

\* Where the sql_database connector raises: nowhere, in list_tables, or in
\* extract_table_data of one table
SqlFailures == {"none", "list_tables", "t1", "t2"}

\* The sql_database branch of extract_all: each table's documents are added
\* to all_documents before the next table is extracted
RECURSIVE SqlBranchFrom(_, _, _)
SqlBranchFrom(st, i, failing) ==
    IF i > Len(LegacyTables) \/ failing = "list_tables" \/ LegacyTables[i] = failing
    THEN <<>>
    ELSE FilterTableDocuments(st, ExtractTableData(LegacyTables[i]))
             \o SqlBranchFrom(st, i + 1, failing)

\* One pass of the loop body of extract_all: what the connector adds to
\* all_documents before it returns or raises
ConnectorDocuments(name, fails) ==
    IF name = SqlDatabase THEN SqlBranchFrom(smState, 1, fails.sql)
    ELSE IF fails.local THEN <<>>
    ELSE FilterProcessedItems(smState, LocalFilesystem, ScanDirectory(smState.last_run))

\* The loop of extract_all over self.connectors.items()
RECURSIVE ExtractFrom(_, _)
ExtractFrom(order, fails) ==
    IF order = <<>> THEN <<>>
    ELSE ConnectorDocuments(Head(order), fails) \o ExtractFrom(Tail(order), fails)

\* The connectors registered, in the order of registration
RegistrationOrders ==
    {<<SqlDatabase>>, <<LocalFilesystem>>,
     <<SqlDatabase, LocalFilesystem>>, <<LocalFilesystem, SqlDatabase>>}

Failures == [sql : SqlFailures, local : BOOLEAN]

\* ConnectorManager.extract_all(incremental=True)
ExtractAllWith(order, fails) ==
    LET all_documents == ExtractFrom(order, fails)
    IN /\ pc = "idle"
       /\ smState' = IF all_documents # <<>>
                     THEN UpdateLastRunTime(
                              MarkDocumentsProcessed(smState, all_documents, clock), clock)
                     ELSE smState
       /\ smFile' = IF all_documents # <<>> THEN smState' ELSE smFile
       /\ pending' = all_documents
       /\ pc' = "extracted"
       /\ last' = Called("extract_all", IF all_documents = <<>> THEN "empty" ELSE "documents")
       /\ UNCHANGED <<xFiles, clock, lastRunStatus, handed>>

NextIsolation ==
    \/ \E order \in RegistrationOrders, fails \in Failures :
          ExtractAllWith(order, fails) /\ UNCHANGED <<managerVars, trackerVars, auxVars>>
    \/ \E ok \in BOOLEAN : Process(ok) /\ UNCHANGED <<managerVars, trackerVars, auxVars>>
    \/ \E p \in Paths, c \in Contents : WriteFile(p, c) /\ UNCHANGED <<managerVars, trackerVars, auxVars>>
    \/ Tick /\ UNCHANGED <<managerVars, trackerVars, auxVars>>

SpecIsolation == InitExtract /\ [][NextIsolation]_vars

\* Whether the connector's extraction raises under the failures drawn
ConnectorRaises(name, fails) ==
    IF name = SqlDatabase THEN fails.sql # "none" ELSE fails.local

\* The registered connectors whose extraction does not raise
RECURSIVE NonFailing(_, _)
NonFailing(order, fails) ==
    IF order = <<>> THEN <<>>
    ELSE (IF ConnectorRaises(Head(order), fails) THEN <<>> ELSE <<Head(order)>>)
             \o NonFailing(Tail(order), fails)

NoFailure == [sql |-> "none", local |-> FALSE]

\* C16: whichever registered connectors raise, extract_all returns exactly
\* the items of the connectors that did not raise, each scanned once.
C16_FailureIsolated ==
    [][\A order \in RegistrationOrders, fails \in Failures :
          ExtractAllWith(order, fails)
          => pending' = ExtractFrom(NonFailing(order, fails), NoFailure)]_vars

-----------------------------------------------------------------------------
(* StateManager of RAG/managers called directly                              *)

\* The item ids a caller marks
MarkedIds == {[sha256 |-> c] : c \in Contents}

\* StateManager.mark_item_processed(source, item_id) followed by save_state
MarkProcessed(source, item_id) ==
    /\ smState' = MarkItemProcessed(smState, source, item_id, clock)
    /\ smFile' = smState'
    /\ last' = Called("mark_item_processed",
                      IF IsItemProcessed(smState, source, item_id) THEN "again" ELSE "first")
    /\ UNCHANGED <<xFiles, clock, pending, pc, lastRunStatus, handed>>

NextLedger ==
    \/ \E source \in {LocalFilesystem, SqlDatabase}, item_id \in MarkedIds :
          MarkProcessed(source, item_id) /\ UNCHANGED <<managerVars, trackerVars, auxVars>>
    \/ RestartScheduler /\ UNCHANGED <<managerVars, trackerVars, auxVars>>
    \/ Tick /\ UNCHANGED <<managerVars, trackerVars, auxVars>>

SpecLedger == InitExtract /\ [][NextLedger]_vars

\* C17: marking an item the ledger already holds leaves its first-processed
\* timestamp as it was.
C17_FirstProcessedKept ==
    [][\A source \in {LocalFilesystem, SqlDatabase}, item_id \in MarkedIds :
          (MarkProcessed(source, item_id) /\ IsItemProcessed(smState, source, item_id))
          => smState'.items[ItemKey(source, item_id)]
                 = smState.items[ItemKey(source, item_id)]]_vars

-----------------------------------------------------------------------------
(* Run bookkeeping of the stage tracker: mark_pipeline_started,              *)
(* mark_pipeline_completed and get_pipeline_summary                          *)

PipelineMetadata == "pipeline_metadata"

\* The keys of self.state: the files with a record and, once a run was
\* recorded, "pipeline_metadata"
StateKeys(st, m) ==
    {f \in FileIds : Tracked(st, f)} \cup (IF m.present THEN {PipelineMetadata} ELSE {})

\* get_file_progress of a key of the state; the value under
\* "pipeline_metadata" is a dict without "stages", so no stage counts
KeyProgress(st, key) ==
    IF key = PipelineMetadata THEN [status |-> "not_started", progress |-> 0]
    ELSE [status |-> GetFileProgress(st, key).status,
          progress |-> GetFileProgress(st, key).progress]

\* status.startswith("failed")
StartsWithFailed(status) ==
    status \in {"failed_at_" \o expected_stages[i] : i \in 1..Len(expected_stages)}

\* sum(file_progresses)
RECURSIVE SumProgress(_, _)
SumProgress(st, keys) ==
    IF keys = {} THEN 0
    ELSE LET key == CHOOSE k \in keys : TRUE
         IN KeyProgress(st, key).progress + SumProgress(st, keys \ {key})

\* StateManager.get_pipeline_summary; overall_progress is progress_sum
\* divided by total_files (0 when there is no key)
GetPipelineSummary(st, m) ==
    LET keys == StateKeys(st, m)
        With(status) == Cardinality({k \in keys : KeyProgress(st, k).status = status})
    IN [total_files |-> Cardinality(keys),
        completed_files |-> With("completed"),
        failed_files |->
            Cardinality({k \in keys : StartsWithFailed(KeyProgress(st, k).status)}),
        in_progress_files |-> With("in_progress"),
        not_started_files |-> With("not_started"),
        progress_sum |-> SumProgress(st, keys)]

outsideRuns == <<managerVars, extractVars, fetchVars, rt, schedVars, store, cli,
                 fsMore, ticks, drain>>

\* StateManager.mark_pipeline_started(run_id)
MarkPipelineStarted(run_id) ==
    /\ meta' = [present |-> TRUE,
                runs |-> [meta.runs EXCEPT
                             ![run_id] = [status |-> "running", summary |-> NoSummary]],
                current_run |-> run_id]
    /\ trFile' = trState
    /\ last' = Called("mark_pipeline_started", run_id)
    /\ UNCHANGED <<trState, cur, drvPc>>

\* StateManager.mark_pipeline_completed(run_id, success); run_id may be None
MarkPipelineCompleted(run_id, success) ==
    LET rid == IF run_id # NoRun THEN run_id
               ELSE IF meta.present THEN meta.current_run ELSE NoRun
    IN IF rid # NoRun /\ meta.present /\ meta.runs[rid].status # "absent"
       THEN /\ meta' = [meta EXCEPT
                           !.runs[rid] =
                               [status |-> IF success THEN "success" ELSE "failed",
                                summary |-> GetPipelineSummary(trState, meta)]]
            /\ trFile' = trState
            /\ last' = Called("mark_pipeline_completed", "recorded")
            /\ UNCHANGED <<trState, cur, drvPc>>
       ELSE /\ last' = Called("mark_pipeline_completed", "warning")
            /\ UNCHANGED <<meta, trackerVars>>

NextRuns ==
    \/ \E run_id \in RunIds : MarkPipelineStarted(run_id) /\ UNCHANGED outsideRuns
    \/ \E run_id \in RunIds \cup {NoRun}, success \in BOOLEAN :
          MarkPipelineCompleted(run_id, success) /\ UNCHANGED outsideRuns
    \/ \E file_id \in FileIds : ReadStart(file_id) /\ UNCHANGED <<managerVars, extractVars, auxVars>>
    \/ \E ok \in BOOLEAN : ReadEnd(ok) /\ UNCHANGED <<managerVars, extractVars, auxVars>>

SpecRuns == InitTracker /\ [][NextRuns]_vars

\* C18: whatever runs were started and completed, at most one recorded run
\* has the status "running".
C18_OneRunning ==
    Cardinality({r \in RunIds : meta.runs[r].status = "running"}) <= 1

\* C19: starting or completing a run changes no file record and does not
\* change what get_pipeline_summary returns, which counts file records only.
C19_BookkeepingApart ==
    [][\A run_id \in RunIds \cup {NoRun}, success \in BOOLEAN :
          ((run_id # NoRun /\ MarkPipelineStarted(run_id))
              \/ MarkPipelineCompleted(run_id, success))
          => /\ trState' = trState
             /\ GetPipelineSummary(trState', meta') = GetPipelineSummary(trState, meta)
             /\ GetPipelineSummary(trState', meta').total_files
                    = Cardinality({f \in FileIds : Tracked(trState', f)})]_vars

-----------------------------------------------------------------------------
(* run.py: one process per command line, each with the configuration and    *)
(* the hash seed of the first                                                *)

\* The command lines tried: no option, one option alone, or --scan with one
\* more option; ids are the ids the caller may type
ArgChoices(ids) ==
    LET alone == {NoArgs,
                  [NoArgs EXCEPT !.list_queue = TRUE],
                  [NoArgs EXCEPT !.clear_queue = TRUE],
                  [NoArgs EXCEPT !.download = TRUE]}
                 \cup {[NoArgs EXCEPT !.mark_processed = id] : id \in ids}
                 \cup {[NoArgs EXCEPT !.download_item = id] : id \in ids}
    IN alone \cup {[a EXCEPT !.scan = TRUE] : a \in alone}
             \cup {[NoArgs EXCEPT !.scan = TRUE, !.verbose = TRUE]}

\* main() up to "manager = ConnectorManager(config)"
CliStart(args, seed, regs) ==
    /\ cli.phase \in {"none", "exit_0", "exit_1"}
    /\ Restart(seed, regs)
    /\ cli' = [phase |-> "constructed", args |-> args]

\* manager.queue = []; manager._save_queue()
CliClearQueue ==
    /\ queue' = <<>>
    /\ queueFile' = <<>>
    /\ last' = Called("clear_queue", "ok")
    /\ UNCHANGED <<envVars, connectors, ledgerVars>>

\* main() returns
Exit(code) == cli' = [cli EXCEPT !.phase = code]

\* The outer if/elif chain of main(): --list-queue, --scan, --clear-queue,
\* and the default action
MainBranch(up) ==
    /\ cli.phase = "constructed"
    /\ IF cli.args.list_queue
       THEN /\ last' = Called("get_queue", "ok")
            /\ UNCHANGED managerVars
            /\ Exit("exit_0")
       ELSE IF cli.args.scan
       THEN /\ ScanAndQueue(up)
            /\ Exit(IF cli.args.verbose THEN "exit_0" ELSE "scanned")
       ELSE IF cli.args.clear_queue
       THEN CliClearQueue /\ Exit("exit_0")
       ELSE ScanAndQueue(up) /\ Exit("exit_0")

\* The elif chain inside the --scan branch, taken when --verbose is not
\* given: --mark-processed, --clear-queue, --download, --download-item, and
\* the default action
ScanBranch(up, fetched) ==
    /\ cli.phase = "scanned"
    /\ IF cli.args.mark_processed # NoId
       THEN IF cli.args.mark_processed \notin QueuedIds(queue)
            THEN /\ last' = Called("main", "item_not_found")
                 /\ UNCHANGED managerVars
                 /\ Exit("exit_1")
            ELSE MarkAsProcessed(cli.args.mark_processed, NoKey) /\ Exit("exit_0")
       ELSE IF cli.args.clear_queue
       THEN CliClearQueue /\ Exit("exit_0")
       ELSE IF cli.args.download
       THEN /\ last' = Called("download_queue", "ok")
            /\ UNCHANGED managerVars
            /\ Exit("exit_0")
       ELSE IF cli.args.download_item # NoId
       THEN IF cli.args.download_item \notin QueuedIds(queue)
            THEN /\ last' = Called("main", "item_not_found")
                 /\ UNCHANGED managerVars
                 /\ Exit("exit_1")
            ELSE DownloadItem(cli.args.download_item, fetched) /\ Exit("exit_0")
       ELSE ScanAndQueue(up) /\ Exit("exit_0")

outsideCli == <<extractVars, trackerVars, fetchVars, rt, schedVars, store, meta,
                fsMore, ticks, drain>>

NextCli ==
    \/ \E args \in ArgChoices(QueuedIds(queueFile) \cup {AbsentId}) :
          CliStart(args, hashSeed, connectors) /\ UNCHANGED outsideCli
    \/ \E up \in SUBSET connectors : MainBranch(up) /\ UNCHANGED outsideCli
    \/ \E up \in SUBSET connectors, fetched \in BOOLEAN :
          ScanBranch(up, fetched) /\ UNCHANGED outsideCli
    \/ \E p \in Paths : TouchFile(p, 1) /\ UNCHANGED <<extractVars, trackerVars, auxVars>>
    \/ InsertRow /\ UNCHANGED <<extractVars, trackerVars, auxVars>>

SpecCli == Init /\ [][NextCli]_vars

\* The command line holds one id option and nothing else
OnlyMarkProcessed(args) ==
    args.mark_processed # NoId /\ args = [NoArgs EXCEPT !.mark_processed = args.mark_processed]

OnlyDownloadItem(args) ==
    args.download_item # NoId /\ args = [NoArgs EXCEPT !.download_item = args.download_item]

\* C20: run with --mark-processed id alone, the process does no scan; it
\* marks the id and exits 0 when the id is queued, and exits non-zero with the
\* queue unchanged when it is not; likewise for --download-item id.
C20_CommandMapsToOperation ==
    [][\A up \in SUBSET connectors :
          MainBranch(up)
          => /\ OnlyMarkProcessed(cli.args)
                => /\ last'.op # "scan_and_queue"
                   /\ IF cli.args.mark_processed \in QueuedIds(queue)
                      THEN last'.op = "mark_as_processed" /\ cli'.phase = "exit_0"
                      ELSE cli'.phase = "exit_1" /\ queue' = queue
             /\ OnlyDownloadItem(cli.args)
                => /\ last'.op # "scan_and_queue"
                   /\ IF cli.args.download_item \in QueuedIds(queue)
                      THEN last'.op = "download_item" /\ cli'.phase = "exit_0"
                      ELSE cli'.phase = "exit_1" /\ queue' = queue]_vars

-----------------------------------------------------------------------------
(* The identity of a local file across scans and processes                   *)

\* C21: as long as a file keeps its path and modification time, every scan,
\* in whichever process, computes the same id for it.
C21_FileIdDeterministic ==
    [][\A p \in Paths :
          (fsFiles[p] # 0 /\ fsFiles'[p] = fsFiles[p])
          => GenerateFileId(p)' = GenerateFileId(p)]_vars

\* The fractions of a second st_mtime can hold, in tenths
Fractions == {0, 5}

\* file_path.stat().st_mtime: whole seconds and the fraction
StMtime(p) == <<fsFiles[p], fsMore[p].frac>>

outsideEdits == <<orchVars, extractVars, trackerVars, fetchVars, rt, schedVars, store,
                  meta, cli, ticks, drain>>

\* The environment: a file is written again within the second of its last
\* write (the fraction of st_mtime moves), or its bytes are replaced and its
\* times set back (st_mtime stays)
EditWithinSecond(p, frac, c) ==
    /\ fsFiles[p] # 0
    /\ fsMore[p] # [frac |-> frac, c |-> c]
    /\ fsMore' = [fsMore EXCEPT ![p] = [frac |-> frac, c |-> c]]

NextEdits ==
    \/ \E up \in SUBSET {"local_file"} :
           Scan("local_file", up) /\ UNCHANGED <<extractVars, trackerVars, auxVars>>
    \/ \E item_id \in IdUniverse :
           ConnectorMark("local_file", item_id, NoKey)
               /\ UNCHANGED <<extractVars, trackerVars, auxVars>>
    \/ \E p \in Paths, mtime \in Mtimes :
           TouchFile(p, mtime) /\ UNCHANGED <<extractVars, trackerVars, auxVars>>
    \/ \E p \in Paths, frac \in Fractions, c \in Contents :
           EditWithinSecond(p, frac, c) /\ UNCHANGED outsideEdits

SpecEdits == InitConnectors /\ [][NextEdits]_vars

\* C22: once a file's id is in the ledger, a write that changes its
\* modification time gives it a new id that the next scan returns, and a
\* change of its bytes that leaves path and modification time alone does not
\* make the scan return it.
C22_EditedFileReturns ==
    [][\A p \in Paths :
          (fsFiles[p] # 0 /\ GenerateFileId(p) \in processedLocal)
          => /\ StMtime(p)' # StMtime(p)
                => /\ GenerateFileId(p)' # GenerateFileId(p)
                   /\ GenerateFileId(p)' \in QueuedIds(LocalScan)'
             /\ (StMtime(p)' = StMtime(p) /\ fsMore'[p].c # fsMore[p].c)
                => GenerateFileId(p)' \notin QueuedIds(LocalScan)']_vars

-----------------------------------------------------------------------------
(* The job of setup_schedule(interval_days) for interval_days # 1: it comes  *)
(* due once a day and runs the pipeline when should_run() allows; the clock  *)
(* counts days                                                               *)

IntervalDays == 2   \* interval_days

\* should_run of setup_schedule
ShouldRun ==
    \/ smState.last_run = NoTime
    \/ clock - smState.last_run >= IntervalDays

outsideInterval == <<managerVars, trackerVars, fetchVars, rt, schedVars, store, meta, cli,
                     fsMore, drain>>

\* schedule.every().day.at(specific_time): the lambda of setup_schedule is
\* called once on each day; run_pipeline begins with extract_all
DailyJob ==
    /\ pc = "idle"
    /\ ticks.tick # clock
    /\ IF ShouldRun
       THEN /\ ExtractAll
            /\ ticks' = [tick |-> clock, cycle |-> clock]
       ELSE /\ ticks' = [ticks EXCEPT !.tick = clock]
            /\ last' = Called("daily_job", "skipped")
            /\ UNCHANGED extractVars

NextInterval ==
    \/ DailyJob /\ UNCHANGED outsideInterval
    \/ \E ok \in BOOLEAN : Process(ok) /\ UNCHANGED <<managerVars, trackerVars, auxVars>>
    \/ \E p \in Paths, c \in Contents : WriteFile(p, c) /\ UNCHANGED <<managerVars, trackerVars, auxVars>>
    \/ Tick /\ UNCHANGED <<managerVars, trackerVars, auxVars>>

SpecInterval == InitExtract /\ [][NextInterval]_vars

\* C23: the daily job starts a cycle only when no run is recorded or the
\* recorded run is at least interval_days old, and two cycles it starts are
\* at least interval_days apart, whatever the earlier cycle found.
C23_MinimumInterval ==
    [][ticks'.cycle # ticks.cycle
       => /\ ShouldRun
          /\ ticks.cycle # NoTime => ticks'.cycle - ticks.cycle >= IntervalDays]_vars

-----------------------------------------------------------------------------
(* stop() and the thread it leaves behind                                    *)

\* C24: stop() on a running scheduler returns without interrupting a cycle in
\* flight, the thread it stopped starts no new cycle afterwards, and stop()
\* on a stopped scheduler and start() on a running one change nothing.
C24_StopLetsCycleFinish ==
    [][/\ \A t \in ThreadIds :
             (threads[t] = "loop" /\ threads'[t] = "cycle")
             => (sched.running /\ t = sched.scheduler_thread)
       /\ \A t \in ThreadIds :
             (threads[t] = "cycle" /\ threads'[t] # "cycle")
             => (threads'[t] = "loop" /\ last'.op = "run_pipeline")
       /\ (Stop /\ ~sched.running) => UNCHANGED schedVars
       /\ (Start /\ sched.running) => UNCHANGED schedVars]_vars

-----------------------------------------------------------------------------
(* The stages process_file attempts                                          *)

\* C25: process_file returns only after the last implemented stage, having
\* recorded an outcome for read, chunk and embed, whichever of them failed.
C25_EveryStageAttempted ==
    [][(drvPc # "idle" /\ drvPc' = "idle" /\ last'.op # "kill")
       => /\ drvPc = "embedding"
          /\ \A stage \in {"read", "chunk", "embed"} : trState'[cur][stage] # "absent"]_vars

-----------------------------------------------------------------------------
(* The stage tracker under any sequence of update_file_state calls           *)

\* The stage names callers record: the expected ones and the driver's "chunk"
RecordedStages == {"read", "processed", "chunked", "embedded", "loaded", "chunk"}

\* StateManager.update_file_state(file_id, stage, success), saved to disk
UpdateAny(file_id, stage, success) ==
    /\ trState' = UpdateFileState(trState, file_id, stage, success)
    /\ trState' # trState
    /\ trFile' = trState'
    /\ last' = Called("update_file_state", stage)
    /\ UNCHANGED <<cur, drvPc>>

NextProgress ==
    \E stage \in RecordedStages, success \in BOOLEAN :
        UpdateAny("f1", stage, success) /\ UNCHANGED <<managerVars, extractVars, auxVars>>

SpecProgress == InitTracker /\ [][NextProgress]_vars

\* The length of the longest prefix of the expected stages recorded as success
SuccessPrefix(stages) ==
    CHOOSE n \in 0..Len(expected_stages) :
        /\ \A i \in 1..n : stages[expected_stages[i]] = "success"
        /\ n < Len(expected_stages) => stages[expected_stages[n + 1]] # "success"

\* C26: completed_stages is the length of the longest all-success prefix of
\* the expected stages, and the status is failed_at_<s> exactly when the
\* stage s that ends the prefix was recorded as failed.
C26_ProgressIsPrefix ==
    \A f \in FileIds :
        Tracked(trState, f)
        => LET progress == GetFileProgress(trState, f)
               n == SuccessPrefix(trState[f])
               ended_by_failure ==
                   n < Len(expected_stages) /\ trState[f][expected_stages[n + 1]] = "failed"
           IN /\ progress.completed_stages = n
              /\ IF ended_by_failure
                 THEN progress.status = "failed_at_" \o expected_stages[n + 1]
                 ELSE ~StartsWithFailed(progress.status)

\* C26 witness: a success is recorded after a stage never attempted and after
\* a failed stage, behind a prefix of one success.
C26_Witness ==
    /\ last.op = "update_file_state"
    /\ trState["f1"]["read"] = "success"
    /\ trState["f1"]["processed"] = "absent"
    /\ trState["f1"]["chunked"] = "failed"
    /\ trState["f1"]["embedded"] = "success"

\* StateManager.get_failed_files: the file ids it lists, one entry for each
\* file with a stage recorded with success False, "pipeline_metadata" skipped
GetFailedFiles(st) ==
    {f \in FileIds : \E stage \in StageNames : st[f][stage] = "failed"}

\* C30: a file is listed by get_failed_files exactly when its progress status
\* is failed_at_<stage>, and the list is as long as failed_files of the
\* summary.
C30_FailureViewsAgree ==
    /\ \A f \in FileIds :
          f \in GetFailedFiles(trState)
          <=> StartsWithFailed(GetFileProgress(trState, f).status)
    /\ Cardinality(GetFailedFiles(trState)) = GetPipelineSummary(trState, meta).failed_files

-----------------------------------------------------------------------------
(* What the files hold when a mutating call has returned                     *)

\* C27: when scan_and_queue, mark_as_processed or the clearing of the queue
\* has returned, the queue file holds the queue and the ledger file of each
\* registered connector holds its ledger, so that a restart loads them as
\* they are.
C27_SavedOnReturn ==
    last.op \in {"scan_and_queue", "mark_as_processed", "clear_queue", "connector_mark"}
    => /\ queueFile = queue
       /\ "local_file" \in connectors => processedLocalFile = processedLocal
       /\ "google_drive" \in connectors => processedDriveFile = processedDrive
       /\ "sql" \in connectors => sqlStateFile = sqlState

\* C27 witness: an item was marked through the manager, which took it from a
\* queue of several items and wrote its connector's ledger.
C27_Witness ==
    /\ last = Called("mark_as_processed", "marked")
    /\ queue # <<>>
    /\ DOMAIN sqlState # {}
    /\ queueFile = queue

-----------------------------------------------------------------------------
(* Re-delivery through the queue                                             *)

\* The names local-file and Google-Drive items carry as their source
FileSources == {ClassName["local_file"], ClassName["google_drive"]}

\* C28: when the manager's mark_as_processed has been called for a queued
\* item of a registered local-file or Google-Drive connector, a
\* scan_and_queue over the unchanged source does not enqueue that id again.
C28_NoRedelivery ==
    [][\A item_id \in IdUniverse, last_key \in Keys :
          (/\ MarkAsProcessed(item_id, last_key)
           /\ item_id \in QueuedIds(queue)
           /\ queue[FirstIndex(queue, item_id)].source \in FileSources
           /\ OriginOf(queue[FirstIndex(queue, item_id)]) \in connectors)
          => item_id \notin QueuedIds(NewItems(ScanAll(connectors), queue))']_vars

-----------------------------------------------------------------------------
(* A table read to its end: get_new_rows, then mark_as_processed with the    *)
(* latest key, until a batch comes back empty                                *)

MaxRows == 3        \* rows of the table that is read to its end

\* The incremental column of a table, row by row; values may repeat
Columns == UNION {[1..n -> 1..MaxKey] : n \in 0..MaxRows}

\* where(incremental_col > last_processed_key): the rows the query may return
RowsAfter(col, last_processed_key) ==
    {i \in 1..Len(col) : last_processed_key = NoKey \/ col[i] > last_processed_key}

\* order_by(incremental_col).limit(batch_size): the first batch_size rows in
\* the column's order; the database orders rows of equal value as it likes
OrderedBatches(col, last_processed_key, batch_size) ==
    LET after == RowsAfter(col, last_processed_key)
        n == IF Cardinality(after) < batch_size THEN Cardinality(after) ELSE batch_size
    IN {B \in SUBSET after :
           /\ Cardinality(B) = n
           /\ \A r \in B, q \in after \ B : col[r] <= col[q]}

\* latest_key = rows[-1][incremental_col.name]
LatestKey(col, B) == CHOOSE v \in {col[r] : r \in B} : \A r \in B : col[r] <= v

\* The variables of the other smaller parts
outsideDrain == <<extractVars, trackerVars, fetchVars, rt, schedVars, store, meta, cli,
                  fsMore, ticks>>

\* One turn of the caller's loop: get_new_rows from the stored cursor; the
\* rows are delivered and the cursor advanced, or the empty batch ends the loop
DrainBatch ==
    /\ drain.state = "draining"
    /\ \E B \in OrderedBatches(drain.col, LastProcessedKey(TheTable), drain.batch_size) :
          IF B = {}
          THEN /\ drain' = [drain EXCEPT !.state = "done"]
               /\ last' = Called("get_new_rows", "empty")
               /\ UNCHANGED ledgerVars
          ELSE /\ drain' = [drain EXCEPT !.delivered =
                               [r \in DOMAIN drain.col |->
                                   IF r \in B THEN drain.delivered[r] + 1
                                   ELSE drain.delivered[r]]]
               /\ MarkIn("sql", TheTable, LatestKey(drain.col, B))
               /\ last' = Called("get_new_rows", "rows")
    /\ UNCHANGED <<envVars, connectors, queue, queueFile>>

InitDrain ==
    /\ ManagerInit
    /\ hashSeed = 0
    /\ connectors = AllKeys
    /\ ExtractIdle
    /\ TrackerIdle
    /\ FetchIdle
    /\ rt = NoRoundTrip
    /\ SchedIdle
    /\ StoreIdle
    /\ meta = NoMeta
    /\ cli = NoCli
    /\ fsMore = NoMore
    /\ ticks = NoTicks
    /\ \E col \in Columns, batch_size \in 1..MaxBatch :
          drain = [col |-> col, batch_size |-> batch_size,
                   delivered |-> [r \in DOMAIN col |-> 0], state |-> "draining"]

NextDrain == DrainBatch /\ UNCHANGED outsideDrain

SpecDrain == InitDrain /\ [][NextDrain]_vars

\* C29: when the loop has ended on an empty batch, every row of the table was
\* delivered exactly once, also when rows share a value of the incremental
\* column.
C29_DrainDeliversEveryRowOnce ==
    drain.state = "done" => \A r \in DOMAIN drain.col : drain.delivered[r] = 1

====
